---- MODULE Spec2Model ----
(***************************************************************************)
(* Verification model of best-buy-tracker-bot: the circuit breaker of      *)
(* src/resilience.py, the price reconciliation of src/bot.py and the       *)
(* persistence operations of src/db.py it drives.                          *)
(*                                                                         *)
(* Money is counted in minor units (cents): the code's 1.0 is 100 and a    *)
(* price such as 9.90 is 990.  Time is counted in whole seconds.           *)
(***************************************************************************)
EXTENDS Integers, FiniteSets, Sequences, TLC

(***************************************************************************)
(* Bounds of the model.                                                    *)
(***************************************************************************)
\* wall-clock horizon, in seconds, of the circuit-breaker runs
MaxClock == 90

\* most rows of one product whose writes raise in one refresh pass
MaxWriteFailures == 1

\* most samples of a history series
MaxSamples == 3

\* largest max_retries a function is wrapped with
MaxRetries == 3

\* longest ASIN list of a batched cache lookup
MaxAsinList == 2

\* most entries the cache directory holds
MaxFiles == 1

\* horizon of the cache clock, in units of 900 seconds
MaxNow == 2

\* Python's None for an optional number (a price, a timestamp)
None == -1

\* seconds by which the wall clock may advance between two steps
TickSteps == {10, 20}

\* threads that call one breaker at the same time
MaxCallers == 2

\* refresh passes the scheduler loop is followed through
MaxPasses == 3

\* fetch tasks one gather of a refresh pass creates
MaxTasks == 11

\* prices (cents) the pure-function checks draw their arguments from
PurePrices == {990, 1000, 1800, 1900, 2000, 4000, 5000, 9500, 10000, 15000}

VARIABLES
    \* ---- CircuitBreaker (src/resilience.py) ----
    config,             \* CircuitBreakerConfig of the breaker under check
    state,              \* CircuitState: "closed", "open", "half_open"
    failure_count,
    last_failure_time,  \* None or the clock of the last counted failure
    clock,              \* time.time()
    cb_pc,              \* "idle", or "in_func" while the wrapped function runs
    cb_result,          \* how the last call() ended or stands
    func_invoked,       \* whether the last call() invoked the wrapped function
    streak,             \* failed calls since the last successful one
    \* ---- one application of a pure function ----
    fx,
    \* ---- tracked items and the refresh pass (src/db.py, src/bot.py) ----
    items,              \* the items table: (user, asin) -> row
    pass_pc,            \* "idle", or "running" inside refresh_prices_and_notify
    pending,            \* rows of the pass's snapshot not yet handled
    ev,                 \* what the last step of a flow did
    \* ---- DiskCache and KeepaCache (src/cache.py) ----
    cache_files,        \* the cache directory: key -> content of its file
    cache_now,          \* time.time(), in units of 900 seconds
    cache_op,           \* the last cache call and how it ended
    cache_written,      \* per key, what set() was last asked to store
    \* ---- retry_with_backoff (src/resilience.py) and the history client ----
    rt,                 \* the wrapper's parameters, loop state and outcome
    fetch,              \* a call of fetch_lifetime_min_max[_current]
    \* ---- the history extractor (src/keepa_client.py) ----
    xt,                 \* a batch of raw products and what the extractor made of it
    \* ---- fetch_html (src/price_fetcher.py) ----
    html,               \* a call of fetch_html on the amazon_scraping breaker
    \* ---- concurrent callers of one breaker (src/resilience.py) ----
    callers,            \* per caller, where it stands in CircuitBreaker.call
    \* ---- periodic_price_check (src/bot.py) ----
    sched,              \* the scheduler loop and the pass it is running
    \* ---- the semaphore of a refresh pass (src/bot.py) ----
    sem                 \* the semaphore and the fetch tasks of one gather

bot_vars == <<items, pass_pc, pending, ev>>
cb_vars == <<config, state, failure_count, last_failure_time, clock, cb_pc,
             cb_result, func_invoked, streak>>
cache_vars == <<cache_files, cache_now, cache_op, cache_written>>
retry_vars == <<rt, fetch>>
ext_vars == <<xt>>
conc_vars == <<html, callers, sched, sem>>
aux_vars == <<cache_vars, retry_vars, ext_vars, conc_vars>>
vars == <<cb_vars, fx, bot_vars, aux_vars>>

(***************************************************************************)
(* src/resilience.py: CircuitBreaker                                       *)
(***************************************************************************)
\* the process-wide breakers and their configurations
circuit_breakers ==
    { [name |-> "keepa_api",       failure_threshold |-> 3, recovery_timeout |-> 30],
      [name |-> "amazon_scraping", failure_threshold |-> 5, recovery_timeout |-> 60],
      [name |-> "database",        failure_threshold |-> 2, recovery_timeout |-> 10] }

\* a reset test that forgets the recovery timer
should_attempt_reset_no_timer ==
    state = "open" /\ last_failure_time # None

_should_attempt_reset ==
    /\ state = "open"
    /\ last_failure_time # None
    /\ clock - last_failure_time >= config.recovery_timeout

\* a success that closes the breaker but keeps the old failure count
on_success_keeps_count ==
    /\ UNCHANGED failure_count
    /\ state' = "closed"
    /\ UNCHANGED last_failure_time

_on_success ==
    /\ failure_count' = 0
    /\ state' = "closed"
    /\ UNCHANGED last_failure_time

\* a failure that is counted but does not restart the recovery timer
on_failure_keeps_timer ==
    /\ failure_count' = failure_count + 1
    /\ UNCHANGED last_failure_time
    /\ state' = IF failure_count + 1 >= config.failure_threshold
                  THEN "open" ELSE state

_on_failure ==
    /\ failure_count' = failure_count + 1
    /\ last_failure_time' = clock
    /\ state' = IF failure_count + 1 >= config.failure_threshold
                  THEN "open" ELSE state

\* call(), up to the invocation of the wrapped function (lines 36-43)
call_enter ==
    /\ cb_pc = "idle"
    /\ IF state = "open" /\ ~_should_attempt_reset
         THEN \* raise Exception("Circuit breaker is OPEN")
              /\ cb_result' = "circuit_open"
              /\ func_invoked' = FALSE
              /\ UNCHANGED <<state, cb_pc>>
         ELSE /\ state' = IF state = "open" THEN "half_open" ELSE state
              /\ cb_result' = "pending"
              /\ func_invoked' = TRUE
              /\ cb_pc' = "in_func"
    /\ UNCHANGED <<config, failure_count, last_failure_time, clock, streak>>

\* call(): the wrapped function returned (lines 44-45)
call_return ==
    /\ cb_pc = "in_func"
    /\ _on_success
    /\ cb_pc' = "idle"
    /\ cb_result' = "returned"
    /\ streak' = 0
    /\ UNCHANGED <<config, clock, func_invoked>>

\* call(): the wrapped function raised expected_exception (lines 46-48)
call_raise ==
    /\ cb_pc = "in_func"
    /\ _on_failure
    /\ cb_pc' = "idle"
    /\ cb_result' = "raised"
    /\ streak' = streak + 1
    /\ UNCHANGED <<config, clock, func_invoked>>

\* time passes, also while the wrapped function runs
Tick ==
    /\ \E d \in TickSteps :
         /\ clock + d <= MaxClock
         /\ clock' = clock + d
    /\ cb_result' = IF cb_pc = "in_func" THEN cb_result ELSE "none"
    /\ UNCHANGED <<config, state, failure_count, last_failure_time, cb_pc,
                   func_invoked, streak>>

\* CircuitBreaker.__init__
CBInit ==
    /\ config \in circuit_breakers
    /\ failure_count = 0
    /\ last_failure_time = None
    /\ state = "closed"
    /\ clock = 0
    /\ cb_pc = "idle"
    /\ cb_result = "none"
    /\ func_invoked = FALSE
    /\ streak = 0

(***************************************************************************)
(* src/bot.py: the pure parts of the reconciliation                        *)
(***************************************************************************)
\* a correction that moves both bounds onto a current below min
validate_price_consistency_collapsing(current_price, min_price, max_price) ==
    <<IF current_price < min_price THEN current_price ELSE min_price,
      IF current_price > max_price \/ current_price < min_price
        THEN current_price ELSE max_price>>

\* a correction that forgets the upper bound
validate_price_consistency_min_only(current_price, min_price, max_price) ==
    <<IF current_price < min_price THEN current_price ELSE min_price, max_price>>

validate_price_consistency(current_price, min_price, max_price) ==
    LET corrected_min == IF current_price < min_price THEN current_price ELSE min_price
        corrected_max == IF current_price > max_price THEN current_price ELSE max_price
    IN  <<corrected_min, corrected_max>>

\* a drop test with the relative threshold alone
significant_drop_relative_only(old_price, current_price) ==
    LET drop == old_price - current_price
    IN  old_price > 0 /\ drop * 100 > 5 * old_price

\* a drop test with inclusive thresholds
significant_drop_inclusive(old_price, current_price) ==
    LET drop == old_price - current_price
    IN  drop >= 100 \/ (old_price > 0 /\ drop * 100 >= 5 * old_price)

\* refresh_prices_and_notify, lines 293-294: drop > 1.0 or drop / old > 0.05
significant_drop(old_price, current_price) ==
    LET drop == old_price - current_price
    IN  drop > 100 \/ (old_price > 0 /\ drop * 100 > 5 * old_price)

PureInit ==
    fx \in { [fn |-> "validate_price_consistency", args |-> <<c, lo, hi>>,
              done |-> FALSE, out |-> <<None, None>>] :
                c \in PurePrices, lo \in PurePrices, hi \in PurePrices }
           \cup
           { [fn |-> "significant_drop", args |-> <<o, n>>,
              done |-> FALSE, out |-> <<None, None>>] :
                o \in PurePrices, n \in PurePrices }

ApplyValidate ==
    /\ fx.fn = "validate_price_consistency" /\ ~fx.done
    /\ fx' = [fx EXCEPT !.done = TRUE,
                        !.out = validate_price_consistency(fx.args[1], fx.args[2], fx.args[3])]

ApplyDrop ==
    /\ fx.fn = "significant_drop" /\ ~fx.done
    /\ fx' = [fx EXCEPT !.done = TRUE,
                        !.out = <<IF significant_drop(fx.args[1], fx.args[2]) THEN 1 ELSE 0, None>>]

fx_idle == [fn |-> "none", args |-> <<>>, done |-> FALSE, out |-> <<None, None>>]

(***************************************************************************)
(* src/db.py: the items table                                              *)
(***************************************************************************)
Users == {"u1", "u2"}
Asins == {"A1"}
Keys == Users \X Asins

\* prices (cents) the providers may report
Prices == {1800, 1900, 2000}
OptPrices == Prices \cup {None}

\* availability strings; "None" stands for Python's None
Avail == {"in_stock", "unavailable"}
NoAvail == "None"

Min(a, b) == IF a <= b THEN a ELSE b
Max(a, b) == IF a >= b THEN a ELSE b

\* add_item: INSERT with last_price = min_price = max_price = price
add_item(k, price) ==
    items @@ (k :> [last_price |-> price, min_price |-> price,
                    max_price |-> price, availability |-> NoAvail])

\* update_item_availability: no-op on a falsy availability
update_item_availability(tbl, k, availability) ==
    IF availability = NoAvail \/ k \notin DOMAIN tbl
      THEN tbl
      ELSE [tbl EXCEPT ![k].availability = availability]

\* update_price_bounds: UPDATE items SET min_price, max_price
update_price_bounds(tbl, k, new_min, new_max) ==
    IF k \notin DOMAIN tbl
      THEN tbl
      ELSE [tbl EXCEPT ![k].min_price = new_min, ![k].max_price = new_max]

\* update_price: last_price and the bounds widened by the new price
update_price(tbl, k, new_price, availability) ==
    IF k \notin DOMAIN tbl
      THEN tbl
      ELSE LET current_min == tbl[k].min_price
               current_max == tbl[k].max_price
               new_min == IF new_price # None
                            THEN (IF current_min # None THEN Min(current_min, new_price) ELSE new_price)
                            ELSE current_min
               new_max == IF new_price # None
                            THEN (IF current_max # None THEN Max(current_max, new_price) ELSE new_price)
                            ELSE current_max
           IN  [tbl EXCEPT
                  ![k].last_price = IF new_price # None THEN new_price ELSE @,
                  ![k].min_price = new_min,
                  ![k].max_price = new_max,
                  ![k].availability = IF availability # NoAvail THEN availability ELSE @]

(***************************************************************************)
(* The collaborators of the two flows, by what they hand their caller      *)
(***************************************************************************)
\* domain_to_currency of the one marketplace modelled (amazon.it)
expected_currency == "EUR"

\* fetch_product_data_legal: (price, currency, availability); title and image
\* are left out.  The all-None tuple is what it returns on any error.  One
\* price is enough for the answers in a foreign currency, whose price the
\* refresh pass discards.
LiveFailed == [price |-> None, currency |-> "None", availability |-> NoAvail]
LiveOut ==
    { [price |-> p, currency |-> expected_currency, availability |-> a] :
        p \in Prices, a \in Avail }
    \cup { [price |-> 1900, currency |-> "USD", availability |-> a] : a \in Avail }
    \cup {LiveFailed}

\* fetch_lifetime_min_max_current, one ASIN's <<min, max, current>>: when the
\* current stat is there the parser has seeded both bounds; the stats are
\* picked one by one from the provider's record, so min > max and a current
\* outside the bounds may come.  The answers drawn: none, a partial one,
\* ordered bounds with the current inside, at an end or outside, ordered
\* bounds without a current, and inverted bounds.
NoKeepa == <<None, None, None>>
KeepaOut ==
    { NoKeepa, <<1900, None, None>>,
      <<1800, 2000, 1900>>, <<1800, 2000, 1800>>, <<1900, 2000, 2000>>,
      <<1800, 1900, 2000>>, <<1900, 2000, 1800>>, <<1800, 2000, None>>,
      <<2000, 1800, 1900>> }

\* how the two writes of one row end in a refresh pass: both done; the first
\* raises (none done); the second raises after the first was committed
WriteOutcomes == {"ok", "bounds_raise", "price_raise"}

Event(op) ==
    [op |-> op, asin |-> "", old |-> <<>>, observed |-> None, current |-> None,
     adj |-> <<None, None>>, avail |-> NoAvail, notified |-> {}, wr |-> <<>>]

(***************************************************************************)
(* src/bot.py: handle_shared_link                                          *)
(***************************************************************************)
\* the table after the flow got a live price: lines 573-653.  bounds_ok tells
\* whether the write of the corrected bounds (lines 648-653) went through; the
\* availability write of lines 642-646 is taken to go through.
handle_shared_link_rows(k, current_price, availability, keepa, forced, bounds_ok) ==
    LET no_history == keepa[1] = None \/ keepa[2] = None
        use_forced == /\ no_history
                      /\ forced[1] # None /\ forced[2] # None
                      /\ (forced[1] # forced[2] \/ forced[1] # current_price)
        min_price == IF ~no_history THEN keepa[1]
                     ELSE IF use_forced THEN forced[1] ELSE current_price
        max_price == IF ~no_history THEN keepa[2]
                     ELSE IF use_forced THEN forced[2] ELSE current_price
        corrected == validate_price_consistency(current_price, min_price, max_price)
        t1 == add_item(k, current_price)
        t2 == update_item_availability(t1, k, availability)
    IN  IF bounds_ok /\ (corrected[1] # current_price \/ corrected[2] # current_price)
          THEN update_price_bounds(t2, k, corrected[1], corrected[2])
          ELSE t2

\* a shared link of a product the user does not track yet, with a live price
handle_shared_link(k) ==
    /\ k \notin DOMAIN items
    /\ \E current_price \in Prices, availability \in Avail, keepa \in KeepaOut,
          bounds_ok \in BOOLEAN :
         \E forced \in (IF keepa[1] = None \/ keepa[2] = None THEN KeepaOut ELSE {NoKeepa}) :
            items' = handle_shared_link_rows(k, current_price, availability, keepa,
                                             forced, bounds_ok)
    /\ ev' = [Event("add") EXCEPT !.asin = k[2]]
    /\ UNCHANGED <<pass_pc, pending>>

\* a shared link that adds nothing: the product is tracked already (lines
\* 502-553), the live fetch gave no price (560-562) or raised (687-696)
handle_shared_link_none(k) ==
    /\ ev' = [Event("add_none") EXCEPT !.asin = k[2]]
    /\ UNCHANGED <<items, pass_pc, pending>>

(***************************************************************************)
(* src/bot.py: refresh_prices_and_notify                                   *)
(***************************************************************************)
\* lines 202-204: nothing is tracked
refresh_no_items ==
    /\ pass_pc = "idle"
    /\ DOMAIN items = {}
    /\ ev' = Event("empty")
    /\ UNCHANGED <<items, pass_pc, pending>>

\* lines 202-216: the snapshot is taken and grouped by product
refresh_begin ==
    /\ pass_pc = "idle"
    /\ DOMAIN items # {}
    /\ pass_pc' = "running"
    /\ pending' = DOMAIN items
    /\ ev' = Event("begin")
    /\ UNCHANGED items

\* lines 233 and 314-315: the history call raises and the pass ends there.
\* fetch_lifetime_min_max_current (keepa_client.py:189) has no parameter
\* new_only, which line 233 passes.
refresh_aborted ==
    /\ pass_pc = "running"
    /\ ev.op = "begin"
    /\ pass_pc' = "idle"
    /\ pending' = {}
    /\ ev' = Event("aborted")
    /\ UNCHANGED items

\* lines 275-290: the two writes of one row
refresh_write(tbl, k, outcome, adj_min, adj_max, current_price, to_avail) ==
    CASE outcome = "ok" ->
           update_price(update_price_bounds(tbl, k, adj_min, adj_max), k, current_price, to_avail)
      [] outcome = "price_raise" -> update_price_bounds(tbl, k, adj_min, adj_max)
      [] OTHER -> tbl

\* a notification gate that ignores the availability
should_notify_always(to_avail) == TRUE

\* line 284: notifications are skipped for an unavailable product
should_notify(to_avail) == to_avail # "unavailable"

\* lines 233-312 for one ASIN of the snapshot, given the answers of the
\* providers, the row that comes first in the snapshot, and how each row's
\* writes end
refresh_asin(lst, keepa, api, first, wr) ==
    LET api_price == IF api.price # None /\ api.currency # "None"
                        /\ api.currency # expected_currency
                       THEN None ELSE api.price
        k_cur == keepa[3]
        missing == keepa[1] = None \/ keepa[2] = None
        lp == items[first].last_price
        seed == IF api_price # None THEN api_price
                ELSE IF k_cur # None THEN k_cur ELSE lp
        k_min == IF missing THEN seed ELSE keepa[1]
        k_max == IF missing THEN seed ELSE keepa[2]
        current_price == IF api_price # None THEN api_price
                         ELSE IF k_cur # None THEN k_cur
                         ELSE (k_min + k_max) \div 2
        adj == validate_price_consistency(current_price, k_min, k_max)
        to_avail == IF api.availability \in {"unavailable", "preorder", "available", "in_stock"}
                      THEN api.availability ELSE NoAvail
        old_price == [k \in lst |-> items[k].last_price]
    IN  IF k_min = None \/ k_max = None
          THEN /\ UNCHANGED items
               /\ ev' = [Event("skip") EXCEPT !.asin = first[2]]
          ELSE /\ items' = [k \in DOMAIN items |->
                              IF k \in lst
                                THEN refresh_write(items, k, wr[k], adj[1], adj[2],
                                                   current_price, to_avail)[k]
                                ELSE items[k]]
               /\ ev' = [op |-> "process", asin |-> first[2], old |-> old_price,
                         observed |-> IF api_price # None THEN api_price ELSE k_cur,
                         current |-> current_price, adj |-> adj, avail |-> to_avail,
                         notified |-> {k \in lst :
                                         /\ should_notify(to_avail)
                                         /\ old_price[k] # None
                                         /\ significant_drop(old_price[k], current_price)},
                         wr |-> wr]

process_asin(asin) ==
    /\ pass_pc = "running"
    /\ LET lst == {k \in pending : k[2] = asin}
       IN  /\ lst # {}
           /\ \E keepa \in KeepaOut, api \in LiveOut, first \in lst,
                 wr \in [lst -> WriteOutcomes] :
                 /\ Cardinality({k \in lst : wr[k] # "ok"}) <= MaxWriteFailures
                 /\ refresh_asin(lst, keepa, api, first, wr)
           /\ pending' = pending \ lst
    /\ UNCHANGED pass_pc

\* line 313: every ASIN of the snapshot was handled
refresh_end ==
    /\ pass_pc = "running"
    /\ pending = {}
    /\ pass_pc' = "idle"
    /\ ev' = Event("end")
    /\ UNCHANGED <<items, pending>>

BotInit ==
    /\ items = [k \in {} |-> None]
    /\ pass_pc = "idle"
    /\ pending = {}
    /\ ev = Event("init")

(***************************************************************************)
(* src/cache.py: DiskCache and KeepaCache                                  *)
(***************************************************************************)
\* ASINs of the batched lookups, listed in the order of their strings
AsinOrder == <<"A1", "B1">>
CacheAsins == {AsinOrder[i] : i \in 1..Len(AsinOrder)}
AsinRank(a) == CHOOSE i \in 1..Len(AsinOrder) : AsinOrder[i] = a
\* the batches looked up: lists of distinct ASINs (the keys of a dict)
AsinLists ==
    {l \in UNION { [1..n -> CacheAsins] : n \in 1..MaxAsinList } :
        \A i \in 1..Len(l), j \in 1..Len(l) : l[i] = l[j] => i = j}
Domains == {"amazon.it", "amazon.com"}

\* the values cached: the bounds looked up on one domain, held as tuples
\* (as the history client builds them); a value read back holds lists
CacheData == [domain : Domains, seq : {"tuple"}]
NoData == [domain |-> "None", seq |-> "None"]

\* what json.dump followed by json.load makes of a value: tuples come back
\* as lists
json_roundtrip(value) == [value EXCEPT !.seq = "list"]

\* DiskCache.__init__ of KeepaCache: default_ttl = 1800 seconds
default_ttl == 2
\* ttl arguments: None, 0 and 900 seconds
Ttls == {None, 0, 1}

\* Python's sorted() on a list of ASINs
sorted(asins) ==
    LET srt[s \in UNION { [1..n -> CacheAsins] : n \in 0..MaxAsinList }] ==
          IF s = <<>> THEN <<>>
          ELSE LET m == CHOOSE i \in 1..Len(s) :
                          \A j \in 1..Len(s) :
                              \/ AsinRank(s[i]) < AsinRank(s[j])
                              \/ (AsinRank(s[i]) = AsinRank(s[j]) /\ i <= j)
                   rest == [j \in 1..(Len(s) - 1) |->
                              IF j < m THEN s[j] ELSE s[j + 1]]
               IN  <<s[m]>> \o srt[rest]
    IN  srt[asins]

\* a key built from the list as it was passed
cache_key_unsorted(prefix, asins) == <<prefix>> \o asins

\* f"{prefix}:{':'.join(sorted(asins))}", as the sequence of its pieces
cache_key(prefix, asins) == <<prefix>> \o sorted(asins)

Prefixes == {"minmax", "minmax_current"}
CacheKeys == {<<p>> \o l : p \in Prefixes, l \in AsinLists}

\* contents of a cache file that are not a cache entry: not JSON at all;
\* a JSON object without all of data, timestamp, ttl; one with a further
\* field; one whose timestamp or ttl is not a number; JSON that is no
\* object; bytes that are not UTF-8
CorruptKinds == {"not_json", "missing_field", "extra_field", "wrong_type",
                 "not_object", "bad_encoding"}
CorruptFile(kind) == [kind |-> kind, data |-> NoData, timestamp |-> 0, ttl |-> 0]

\* CacheEntry.is_expired
is_expired(entry) == cache_now > entry.timestamp + entry.ttl

\* DiskCache.get: <<value returned, exception raised, files afterwards>>
get_result(key) ==
    IF key \notin DOMAIN cache_files
      THEN <<NoData, "none", cache_files>>
    ELSE LET f == cache_files[key]
             unlinked == [k \in DOMAIN cache_files \ {key} |-> cache_files[k]]
         IN  CASE f.kind = "entry" ->
                    IF is_expired(f) THEN <<NoData, "none", unlinked>>
                                     ELSE <<f.data, "none", cache_files>>
               [] f.kind = "not_json" -> <<NoData, "none", unlinked>>
               [] f.kind = "bad_encoding" -> <<NoData, "UnicodeDecodeError", cache_files>>
               [] OTHER -> <<NoData, "TypeError", cache_files>>

\* DiskCache.set, its write succeeding: the files afterwards
set_result(key, value, ttl) ==
    LET entry == [kind |-> "entry", data |-> json_roundtrip(value),
                  timestamp |-> cache_now,
                  ttl |-> IF ttl = None \/ ttl = 0 THEN default_ttl ELSE ttl]
        put(f) == [k \in DOMAIN cache_files \cup {key} |->
                     IF k = key THEN f ELSE cache_files[k]]
    IN  put(entry)

CacheOp(op) ==
    [op |-> op, prefix |-> "", asins |-> <<>>, domain |-> "None", found |-> "none", left |-> FALSE,
     out |-> NoData, raised |-> "none"]

\* the kind of the file a get() finds under a key
found_kind(key) ==
    IF key \in DOMAIN cache_files THEN cache_files[key].kind ELSE "none"

\* KeepaCache.get_lifetime_minmax / get_lifetime_minmax_current, called for
\* a lookup on `domain` (which the methods do not take)
get_lifetime(prefix, asins, domain) ==
    LET key == cache_key(prefix, asins)
        r == get_result(key)
    IN  /\ cache_files' = r[3]
        /\ cache_op' = [op |-> "get", prefix |-> prefix, asins |-> asins, domain |-> domain,
                        found |-> found_kind(key), left |-> key \in DOMAIN r[3],
                        out |-> r[1], raised |-> r[2]]
        /\ UNCHANGED <<cache_now, cache_written>>

\* KeepaCache.set_lifetime_minmax / set_lifetime_minmax_current
set_lifetime(prefix, asins, data, ttl) ==
    LET key == cache_key(prefix, asins)
    IN  /\ Cardinality(DOMAIN cache_files \cup DOMAIN cache_written \cup {key}) <= MaxFiles
        /\ cache_files' = set_result(key, data, ttl)
        /\ cache_written' = [k \in DOMAIN cache_written \cup {key} |->
                               IF k = key
                                 THEN [value |-> data, ttl |-> ttl, at |-> cache_now,
                                       asins |-> asins]
                                 ELSE cache_written[k]]
        /\ cache_op' = CacheOp("set")
        /\ UNCHANGED cache_now

\* DiskCache.delete
delete(key) ==
    /\ cache_files' = [k \in DOMAIN cache_files \ {key} |-> cache_files[k]]
    /\ cache_written' = [k \in DOMAIN cache_written \ {key} |-> cache_written[k]]
    /\ cache_op' = CacheOp("delete")
    /\ UNCHANGED cache_now

\* DiskCache.clear_expired: line 88 tests `entry.is_expired`, the bound
\* method and so always true, and unreadable files are removed by the
\* handler: every file of the directory goes, expired or not
clear_expired ==
    /\ cache_files' = [k \in {} |-> NoData]
    /\ cache_written' = [k \in {} |-> NoData]
    /\ cache_op' = CacheOp("clear_expired")
    /\ UNCHANGED cache_now

\* the file of a key is damaged on disk; what set() stored there is gone
corrupt_file(key, kind) ==
    /\ key \in DOMAIN cache_files
    /\ cache_files' = [cache_files EXCEPT ![key] = CorruptFile(kind)]
    /\ cache_written' = [k \in DOMAIN cache_written \ {key} |-> cache_written[k]]
    /\ cache_op' = CacheOp("corrupt")
    /\ UNCHANGED cache_now

\* time passes
cache_tick ==
    /\ cache_now < MaxNow
    /\ cache_now' = cache_now + 1
    /\ cache_op' = CacheOp("tick")
    /\ UNCHANGED <<cache_files, cache_written>>

\* DiskCache.__init__ on an empty directory
CacheInit ==
    /\ cache_files = [k \in {} |-> NoData]
    /\ cache_written = [k \in {} |-> NoData]
    /\ cache_now = 0
    /\ cache_op = CacheOp("init")

cache_parked == CacheInit

(***************************************************************************)
(* src/resilience.py: retry_with_backoff (sync_wrapper)                    *)
(***************************************************************************)
\* backoff_factor ** attempt
pow(b, n) ==
    LET p[i \in 0..n] == IF i = 0 THEN 1 ELSE b * p[i - 1]
    IN  p[n]

\* a delay that is not capped by max_delay
retry_delay_uncapped(base_delay, backoff_factor, max_delay, attempt) ==
    base_delay * pow(backoff_factor, attempt)

\* min(base_delay * (backoff_factor ** attempt), max_delay)
retry_delay(base_delay, backoff_factor, max_delay, attempt) ==
    Min(base_delay * pow(backoff_factor, attempt), max_delay)

NoException == [n |-> 0, kind |-> "none"]

rt_idle ==
    [pc |-> "idle", max_retries |-> 0, base_delay |-> 0, backoff_factor |-> 0,
     max_delay |-> 0, attempt |-> 0, calls |-> 0, sleeps |-> <<>>,
     last_exception |-> NoException, raised |-> NoException]

\* the wrapper is entered: last_exception = None, attempt = 0
retry_begin(max_retries, base_delay, backoff_factor, max_delay) ==
    [rt_idle EXCEPT !.pc = "calling", !.max_retries = max_retries,
                    !.base_delay = base_delay, !.backoff_factor = backoff_factor,
                    !.max_delay = max_delay]

\* func returned: the wrapper returns its value
retry_returned(r) ==
    [r EXCEPT !.pc = "returned", !.calls = @ + 1]

\* func raised its calls-th exception: one listed in `exceptions` is kept,
\* and either the loop ends and it is raised or the wrapper sleeps and goes
\* round; any other exception leaves the wrapper at once
retry_raised(r, retryable) ==
    LET e == [n |-> r.calls + 1, kind |-> IF retryable THEN "retryable" ELSE "other"]
    IN  IF ~retryable
          THEN [r EXCEPT !.pc = "raised", !.calls = @ + 1, !.raised = e]
        ELSE IF r.attempt = r.max_retries
          THEN [r EXCEPT !.pc = "raised", !.calls = @ + 1,
                         !.last_exception = e, !.raised = e]
        ELSE [r EXCEPT !.calls = @ + 1, !.last_exception = e,
                       !.sleeps = Append(@, retry_delay(r.base_delay, r.backoff_factor,
                                                        r.max_delay, r.attempt)),
                       !.attempt = @ + 1]

\* a wrapped function is called
retry_call ==
    /\ rt.pc # "calling"
    /\ \E n \in 0..MaxRetries, b \in {1, 2}, f \in {1, 2, 3}, m \in {3, 60} :
          rt' = retry_begin(n, b, f, m)
    /\ UNCHANGED fetch

func_returns ==
    /\ rt.pc = "calling"
    /\ rt' = retry_returned(rt)
    /\ UNCHANGED fetch

func_raises ==
    /\ rt.pc = "calling"
    /\ \E retryable \in BOOLEAN : rt' = retry_raised(rt, retryable)
    /\ UNCHANGED fetch

(***************************************************************************)
(* src/keepa_client.py: fetch_lifetime_min_max_current and                 *)
(* fetch_lifetime_min_max, each wrapped by                                 *)
(* retry_with_backoff(max_retries=3, exceptions=(Exception,))              *)
(***************************************************************************)
FetchFns == {"fetch_lifetime_min_max_current", "fetch_lifetime_min_max"}
\* the asin_list arguments
FetchLists == {<<>>, <<"A1">>, <<"A1", "B1">>}

NoResult == [kind |-> "none", asins |-> {}, width |-> 0]
\* return {}
EmptyResult == [kind |-> "empty", asins |-> {}, width |-> 0]
\* {asin: (None, None, None) for asin in asin_list}, or (None, None)
no_data(fn, asin_list) ==
    [kind |-> "no_data", asins |-> {asin_list[i] : i \in 1..Len(asin_list)},
     width |-> IF fn = "fetch_lifetime_min_max_current" THEN 3 ELSE 2]
\* what a provider's answer was parsed to
DataResult == [kind |-> "data", asins |-> {}, width |-> 0]
\* the wrapper gave up and raised
RaisedResult == [kind |-> "raised", asins |-> {}, width |-> 0]

fetch_idle ==
    [pc |-> "idle", fn |-> "", asin_list |-> <<>>, queries |-> 0,
     open_before |-> FALSE, failed |-> FALSE, result |-> NoResult]

\* the wrapped function is called: lines 191-193, the key and the list
fetch_call(fn, has_key, asin_list) ==
    LET r == retry_begin(3, 1, 2, 60)
        go == has_key /\ asin_list # <<>>
    IN  /\ fetch.pc \in {"idle", "done"}
        /\ cb_pc = "idle"
        /\ rt' = IF go THEN r ELSE retry_returned(r)
        /\ fetch' = [fetch_idle EXCEPT !.pc = IF go THEN "primary" ELSE "done",
                                       !.fn = fn, !.asin_list = asin_list,
                                       !.result = IF go THEN NoResult ELSE EmptyResult]
        /\ UNCHANGED cb_vars

\* circuit_breakers['keepa_api'].call(...) of line 196 (or 203): an OPEN
\* breaker raises, `except Exception` returns the None bounds and the
\* wrapper returns them; otherwise the provider is queried
fetch_enter ==
    /\ fetch.pc \in {"primary", "http"}
    /\ call_enter
    /\ LET before == /\ fetch.pc = "primary"
                      /\ state = "open"
                      /\ clock - last_failure_time < config.recovery_timeout
       IN  IF cb_result' = "circuit_open"
             THEN /\ fetch' = [fetch EXCEPT !.pc = "done", !.open_before = before,
                                            !.result = no_data(fetch.fn, fetch.asin_list)]
                  /\ rt' = retry_returned(rt)
             ELSE /\ fetch' = [fetch EXCEPT !.pc = IF @ = "primary" THEN "primary_running"
                                                                  ELSE "http_running",
                                            !.open_before = before,
                                            !.queries = @ + 1]
                  /\ UNCHANGED rt

\* the provider answered: call() returns, the body returns, the wrapper returns
fetch_provider_returns ==
    /\ fetch.pc \in {"primary_running", "http_running"}
    /\ call_return
    /\ fetch' = [fetch EXCEPT !.pc = "done", !.result = DataResult]
    /\ rt' = retry_returned(rt)

\* the provider raised.  call() counts the failure and raises on.  An
\* ImportError of the primary provider leads to the handler of lines 197-205:
\* pykeepa answers (its query errors are swallowed, line 254), or cannot be
\* imported and the HTTP provider is called through the breaker, or raises
\* something else, which leaves the body and reaches the wrapper.  Any other
\* exception, and any exception of the HTTP provider, ends in the None bounds.
fetch_provider_raises(exc, pykeepa) ==
    /\ fetch.pc \in {"primary_running", "http_running"}
    /\ call_raise
    /\ IF fetch.pc = "primary_running" /\ exc = "ImportError"
         THEN CASE pykeepa = "returns" ->
                     /\ fetch' = [fetch EXCEPT !.pc = "done", !.result = DataResult]
                     /\ rt' = retry_returned(rt)
                [] pykeepa = "ImportError" ->
                     /\ fetch' = [fetch EXCEPT !.pc = "http"]
                     /\ UNCHANGED rt
                [] OTHER ->
                     /\ rt' = retry_raised(rt, TRUE)
                     /\ fetch' = IF rt'.pc = "raised"
                                   THEN [fetch EXCEPT !.pc = "done", !.result = RaisedResult]
                                   ELSE [fetch EXCEPT !.pc = "primary", !.queries = 0,
                                                      !.open_before = FALSE]
         ELSE /\ fetch' = [fetch EXCEPT !.pc = "done", !.failed = TRUE,
                                        !.result = no_data(fetch.fn, fetch.asin_list)]
              /\ rt' = retry_returned(rt)

\* time passes during and between the calls
fetch_tick ==
    /\ Tick
    /\ UNCHANGED <<rt, fetch>>

\* the keepa_api breaker, freshly built
FetchInit ==
    /\ CBInit
    /\ config.name = "keepa_api"
    /\ rt = rt_idle
    /\ fetch = fetch_idle

retry_parked == rt = rt_idle /\ fetch = fetch_idle

(***************************************************************************)
(* src/keepa_client.py: the history extractor.  Prices are whole cents     *)
(* throughout; the final division by 100 is left out.                      *)
(***************************************************************************)
\* 0 < price < 2_000_000
in_range(price) == 0 < price /\ price < 2000000

\* the pair read as [timestamp, price]: the second element is the price
extract_from_pair_second(a, b) == b

\* extract_from_pair of _pick_amazon_stat, for two numbers
extract_from_pair(a, b) ==
    IF a > 2000000 /\ b < 2000000 THEN b
    ELSE IF b > 2000000 /\ a < 2000000 THEN a
    ELSE a

\* One entry of a stat list or stat dict: a number, a pair of numbers, or
\* something else (a string, None, a pair holding a non-number, a list of
\* one element)
NumEntry(n) == [t |-> "num", a |-> n, b |-> 0]
PairEntry(a, b) == [t |-> "pair", a |-> a, b |-> b]
OtherEntry == [t |-> "other", a |-> 0, b |-> 0]

\* the price an entry gives, None when it gives none
entry_price(e) ==
    LET price == CASE e.t = "pair" -> extract_from_pair(e.a, e.b)
                   [] e.t = "num" -> e.a
                   [] OTHER -> None
    IN  IF in_range(price) THEN price ELSE None

\* the first entry of a list that gives a price (lines 324-343 for a list,
\* 345-354 for the labels of a dict in the order they are tried)
first_price(l) ==
    IF \E i \in 1..Len(l) : entry_price(l[i]) # None
      THEN entry_price(l[CHOOSE i \in 1..Len(l) :
                            /\ entry_price(l[i]) # None
                            /\ \A j \in 1..(i - 1) : entry_price(l[j]) = None])
      ELSE None

\* A stat value: missing, a scalar, a list, a dict (its values under the
\* labels tried, in that order), or something else (a string)
NoStat == [t |-> "none", a |-> 0, l |-> <<>>]
NumStat(n) == [t |-> "num", a |-> n, l |-> <<>>]
ListStat(l) == [t |-> "list", a |-> 0, l |-> l]
DictStat(l) == [t |-> "dict", a |-> 0, l |-> l]
OtherStat == [t |-> "other", a |-> 0, l |-> <<>>]

\* _pick_amazon_stat(stats, key), val being stats.get(key)
_pick_amazon_stat(val) ==
    CASE val.t = "none" -> None
      [] val.t \in {"list", "dict"} -> first_price(val.l)
      [] val.t = "num" -> IF in_range(val.a) THEN val.a ELSE None
      [] OTHER -> None

\* sorted(seq)
sorted_ints(seq) == SortSeq(seq, LAMBDA x, y : x < y)

\* the values at the even (parity 0) or odd (parity 1) 0-based indices
subset_vals(series, parity) ==
    [i \in 1..((Len(series) + 1 - parity) \div 2) |-> series[2 * i - 1 + parity]]

\* monotonic_score as the fraction <<inc, total>>; 0 for fewer than 3 values
monotonic_score(seq) ==
    IF Len(seq) < 3 THEN <<0, 1>>
    ELSE <<Cardinality({i \in 2..Len(seq) : seq[i] >= seq[i - 1]}), Len(seq) - 1>>

\* sorted(vals)[len(vals) // 2], 0 for no values
median(vals) ==
    IF vals = <<>> THEN 0 ELSE sorted_ints(vals)[(Len(vals) \div 2) + 1]

\* the values of a sequence that a test keeps, in order
keep(seq, Test(_)) ==
    LET f[i \in 0..Len(seq)] ==
          IF i = 0 THEN <<>>
          ELSE IF Test(seq[i]) THEN Append(f[i - 1], seq[i]) ELSE f[i - 1]
    IN  f[Len(seq)]

\* the least and the greatest value of a non-empty sequence
seq_min(seq) == CHOOSE v \in {seq[i] : i \in 1..Len(seq)} :
                    \A j \in 1..Len(seq) : v <= seq[j]
seq_max(seq) == CHOOSE v \in {seq[i] : i \in 1..Len(seq)} :
                    \A j \in 1..Len(seq) : v >= seq[j]

\* lines 571-597: TRUE when the even indices are taken for the timestamps
timestamps_are_even(even_vals, odd_vals) ==
    LET m_even == monotonic_score(even_vals)
        m_odd == monotonic_score(odd_vals)
        ge08(m) == 10 * m[1] >= 8 * m[2]
        lt06(m) == 10 * m[1] < 6 * m[2]
        median_even == median(even_vals)
        median_odd == median(odd_vals)
    IN  IF ge08(m_even) /\ lt06(m_odd) THEN TRUE
        ELSE IF ge08(m_odd) /\ lt06(m_even) THEN FALSE
        ELSE IF median_even > 1000000 /\ median_even > median_odd * 2 THEN TRUE
        ELSE IF median_odd > 1000000 /\ median_odd > median_even * 2 THEN FALSE
        ELSE m_even[1] * m_odd[2] > m_odd[1] * m_even[2]

\* lines 611-621: the IQR filter
iqr_filter(filtered) ==
    IF Len(filtered) < 5 THEN filtered
    ELSE LET s == sorted_ints(filtered)
             q1 == s[(Len(s) \div 4) + 1]
             q3 == s[((Len(s) * 3) \div 4) + 1]
             iqr == Max(q3 - q1, 1)
             upper == q3 + 3 * iqr
             lower == Max(q1 - 3 * iqr, 0)
             Inside(v) == lower <= v /\ v <= upper
         IN  keep(filtered, Inside)

\* _minmax_from_history for the series picked from data or csv[0], a list of
\* numbers: <<hmin, hmax>>
_minmax_from_history(series) ==
    IF Len(series) < 4 THEN <<None, None>>
    ELSE LET even_vals == subset_vals(series, 0)
             odd_vals == subset_vals(series, 1)
             ts_even == timestamps_are_even(even_vals, odd_vals)
             price_candidates == IF ts_even THEN odd_vals ELSE even_vals
             alt == IF ts_even THEN even_vals ELSE odd_vals
             Plausible(v) == 0 < v /\ v <= 2000000
             first == keep(price_candidates, Plausible)
             filtered == IF first # <<>> THEN first ELSE keep(alt, Plausible)
             final == iqr_filter(filtered)
         IN  IF final = <<>> THEN <<None, None>>
             ELSE <<seq_min(final), seq_max(final)>>

\* isinstance(raw, (int, float)) and raw > 0
valid(raw) == raw > 0

\* a lower bound replaced by any history minimum when it is degenerate
lower_from_history_always(raw_min, degenerate, hmin) ==
    IF (~valid(raw_min) \/ degenerate) /\ hmin # None THEN hmin ELSE raw_min

\* lines 438-439 and 503-504: the lower bound after the history was looked at
lower_from_history(raw_min, degenerate, hmin) ==
    IF (~valid(raw_min) \/ (degenerate /\ hmin # None /\ hmin < raw_min)) /\ hmin # None
      THEN hmin ELSE raw_min

\* lines 441-442 and 506-507: the upper bound
raise_from_history(raw_max, degenerate, hmax) ==
    IF (~valid(raw_max) \/ (degenerate /\ hmax # None /\ hmax > raw_max)) /\ hmax # None
      THEN hmax ELSE raw_max

\* lines 456-458: a bound that is not a positive number is returned as None
final(raw) == IF valid(raw) THEN raw ELSE None

\* the stats a product carries: a mapping (p.stats), nothing (None or {}), or
\* a value that is true and no mapping (a list, a number, a string)
has_stats(p) == p.stats_kind = "mapping"

\* the body of the loop of _parse_keepa_products_with_current for a product
\* whose stats are a mapping or missing: <<min, max, current>>
with_current(p) ==
    LET raw_current == IF has_stats(p) THEN _pick_amazon_stat(p.stats.current) ELSE None
        seed(raw) == IF ~valid(raw) /\ valid(raw_current) THEN raw_current ELSE raw
        raw_min == IF has_stats(p) THEN seed(_pick_amazon_stat(p.stats.min)) ELSE None
        raw_max == IF has_stats(p) THEN seed(_pick_amazon_stat(p.stats.max)) ELSE None
        need_history == \/ ~valid(raw_min)
                        \/ ~valid(raw_max)
                        \/ (raw_current # None /\ raw_min = raw_max /\ raw_max = raw_current)
        h == _minmax_from_history(p.series)
    IN  IF need_history
          THEN <<final(lower_from_history(raw_min, raw_min = raw_current, h[1])),
                 final(raise_from_history(raw_max, raw_max = raw_current, h[2])),
                 final(raw_current)>>
          ELSE <<final(raw_min), final(raw_max), final(raw_current)>>

\* the body of the loop of _parse_keepa_products: <<min, max>>
bounds_only(p) ==
    LET c == IF has_stats(p) THEN _pick_amazon_stat(p.stats.current) ELSE None
        seed(raw) == IF ~valid(raw) /\ valid(c) THEN c ELSE raw
        raw_min == IF has_stats(p) THEN seed(_pick_amazon_stat(p.stats.min)) ELSE None
        raw_max == IF has_stats(p) THEN seed(_pick_amazon_stat(p.stats.max)) ELSE None
        need_history == ~valid(raw_min) \/ ~valid(raw_max) \/ raw_min = raw_max
        h == _minmax_from_history(p.series)
        new_min == lower_from_history(raw_min, raw_min = raw_max, h[1])
    IN  IF need_history
          THEN <<final(new_min),
                 final(raise_from_history(raw_max, new_min = raw_max, h[2]))>>
          ELSE <<final(raw_min), final(raw_max)>>

\* the loop over the products: a product without an ASIN is skipped; stats
\* that are no mapping make stats.get raise AttributeError, which nothing
\* catches, and the results gathered so far are lost with it; otherwise
\* out[asin] is what the last product of that ASIN gave
parse_products(products, one(_)) ==
    LET listed == {i \in 1..Len(products) : products[i].asin # ""}
    IN  IF \E i \in listed : products[i].stats_kind = "not_mapping"
          THEN [raised |-> "AttributeError", out |-> <<>>]
          ELSE [raised |-> "none",
                out |-> [a \in {products[i].asin : i \in listed} |->
                           one(products[CHOOSE i \in listed :
                                   /\ products[i].asin = a
                                   /\ \A j \in listed : products[j].asin = a => j <= i])]]

_parse_keepa_products_with_current(products) == parse_products(products, with_current)
_parse_keepa_products(products) == parse_products(products, bounds_only)

\* ---- the raw products the extractor is given ----
Stats(current, min, max) == [current |-> current, min |-> min, max |-> max]
Product(asin, stats_kind, stats, series) ==
    [asin |-> asin, stats_kind |-> stats_kind, stats |-> stats, series |-> series]

\* stats of plain numbers, a history series of timestamp and price samples
ScalarStats == {NoStat, NumStat(1000), NumStat(1500)}
Timestamps == {100, 3000000}
HistPrices == {800, 1000, 1200, 2500000}
Samples(n) == [1..n -> Timestamps \X HistPrices]
\* the series [t1, p1, t2, p2, ...] of a sequence of samples
series_of(samples) ==
    [i \in 1..(2 * Len(samples)) |-> samples[(i + 1) \div 2][2 - (i % 2)]]
\* five samples at growing timestamps
LongSeries ==
    {series_of([i \in 1..5 |-> <<3000000 + i, ps[i]>>]) : ps \in [1..5 -> {1000, 5000}]}
HistorySeries ==
    {<<>>} \cup {series_of(ss) : ss \in UNION {Samples(n) : n \in 2..MaxSamples}}
           \cup LongSeries
HistoryProducts ==
    {Product("A1", "mapping", Stats(c, lo, hi), srs) :
        c \in ScalarStats, lo \in ScalarStats, hi \in ScalarStats, srs \in HistorySeries}

\* stat values of every shape, no history
PairValues == {-1, 1999, 1500, 300000, 2500000}
ShapedStats ==
    {NoStat, OtherStat, NumStat(-1), NumStat(1999), NumStat(2500000),
     ListStat(<<>>), ListStat(<<OtherEntry>>), ListStat(<<NumEntry(2500000), NumEntry(1999)>>),
     ListStat(<<OtherEntry, PairEntry(1999, 2500000)>>),
     DictStat(<<NumEntry(1999)>>), DictStat(<<OtherEntry, PairEntry(2500000, 1999)>>)}
    \cup {ListStat(<<PairEntry(a, b)>>) : a \in PairValues, b \in PairValues}
NoStats == Stats(NoStat, NoStat, NoStat)
ShapeProducts ==
    {Product("A1", "mapping", Stats(c, lo, hi), <<>>) :
        c \in ShapedStats, lo \in {NoStat, NumStat(1500)}, hi \in {NoStat, NumStat(1500)}}
    \cup {Product(a, k, NoStats, <<>>) : a \in {"A1", ""}, k \in {"missing", "not_mapping"}}
\* a well-formed product of another ASIN
GoodProduct == Product("B1", "mapping", Stats(NumStat(1000), NumStat(900), NumStat(1100)), <<>>)

Batches ==
    {<<p>> : p \in HistoryProducts}
    \cup {<<p, GoodProduct>> : p \in ShapeProducts}
    \cup {<<GoodProduct, p>> : p \in ShapeProducts}

NotRun == [raised |-> "not run", out |-> <<>>]

\* a batch of raw products arrives
ExtInit ==
    xt \in {[products |-> b, cur |-> NotRun, bo |-> NotRun] : b \in Batches}

ApplyParseWithCurrent ==
    /\ xt.cur = NotRun
    /\ xt' = [xt EXCEPT !.cur = _parse_keepa_products_with_current(xt.products)]

ApplyParse ==
    /\ xt.bo = NotRun
    /\ xt' = [xt EXCEPT !.bo = _parse_keepa_products(xt.products)]

ext_parked == xt = [products |-> <<>>, cur |-> NotRun, bo |-> NotRun]

(***************************************************************************)
(* src/price_fetcher.py: fetch_html on the amazon_scraping breaker          *)
(***************************************************************************)
\* the failures one run counts before no further fetch is started
MaxFailureCount == 7

\* CircuitState is a plain Enum (resilience.py 8-11): a member compares
\* unequal to every str, its own value included
enum_eq_str(member, s) == FALSE

html_idle == [pc |-> "idle", open_at_call |-> FALSE, streak_at_call |-> 0,
              before_timeout |-> FALSE, sent |-> FALSE, result |-> "none",
              logged |-> "none"]

\* fetch_html up to the HTTP request (lines 44-48); the retry wrapper of
\* line 41 never sees an exception, the body catching them all (line 62)
fetch_html_enter ==
    /\ html.pc # "requesting"
    /\ failure_count < MaxFailureCount
    /\ LET at_call == [open_at_call |-> state = "open",
                       streak_at_call |-> streak,
                       before_timeout |->
                           /\ last_failure_time # None
                           /\ clock - last_failure_time < config.recovery_timeout]
       IN IF enum_eq_str(state, "open")
            THEN \* return None
                 html' = at_call @@ [pc |-> "done", sent |-> FALSE, result |-> "None",
                                     logged |-> "Circuit breaker open"]
            ELSE \* await client.get(url, ...)
                 html' = at_call @@ [pc |-> "requesting", sent |-> TRUE, result |-> "none",
                                     logged |-> "none"]
    /\ UNCHANGED cb_vars

\* the response arrived (lines 50-60)
fetch_html_response(status_code) ==
    /\ html.pc = "requesting"
    /\ IF status_code = 200
         THEN /\ _on_success
              /\ streak' = 0
              /\ html' = [html EXCEPT !.pc = "done", !.result = "text"]
         ELSE /\ _on_failure
              /\ streak' = streak + 1
              /\ html' = [html EXCEPT !.pc = "done", !.result = "None",
                                      !.logged = "HTTP error"]
    /\ UNCHANGED <<config, clock, cb_pc, cb_result, func_invoked>>

\* the request raised (lines 62-65)
fetch_html_raises ==
    /\ html.pc = "requesting"
    /\ _on_failure
    /\ streak' = streak + 1
    /\ html' = [html EXCEPT !.pc = "done", !.result = "None",
                            !.logged = "HTTP fetch failed"]
    /\ UNCHANGED <<config, clock, cb_pc, cb_result, func_invoked>>

StatusCodes == {200, 503}

HtmlInit ==
    /\ CBInit
    /\ config.name = "amazon_scraping"
    /\ html = html_idle

(***************************************************************************)
(* src/resilience.py: CircuitBreaker.call entered by several threads       *)
(***************************************************************************)
Callers == 1..MaxCallers

callers_idle == [t \in Callers |-> [pc |-> "idle", arrived_in |-> "none"]]

\* call() of caller t up to the invocation of the wrapped function (lines
\* 36-43); the method takes no lock, and the steps of one caller are taken
\* here in one piece, which leaves out interleavings but adds none
conc_call_enter(t) ==
    /\ callers[t].pc # "in_func"
    /\ IF state = "open" /\ ~_should_attempt_reset
         THEN \* raise Exception("Circuit breaker is OPEN")
              /\ callers' = [callers EXCEPT ![t] = [pc |-> "rejected", arrived_in |-> state]]
              /\ UNCHANGED state
         ELSE /\ state' = IF state = "open" THEN "half_open" ELSE state
              /\ callers' = [callers EXCEPT ![t] = [pc |-> "in_func", arrived_in |-> state]]
    /\ UNCHANGED <<config, failure_count, last_failure_time, clock, cb_pc,
                   cb_result, func_invoked, streak>>

\* the wrapped function of caller t returned (lines 44-45)
conc_call_return(t) ==
    /\ callers[t].pc = "in_func"
    /\ _on_success
    /\ callers' = [callers EXCEPT ![t].pc = "returned"]
    /\ UNCHANGED <<config, clock, cb_pc, cb_result, func_invoked, streak>>

\* the wrapped function of caller t raised expected_exception (lines 46-48)
conc_call_raise(t) ==
    /\ callers[t].pc = "in_func"
    /\ _on_failure
    /\ callers' = [callers EXCEPT ![t].pc = "raised"]
    /\ UNCHANGED <<config, clock, cb_pc, cb_result, func_invoked, streak>>

ConcInit ==
    /\ CBInit
    /\ callers = callers_idle

(***************************************************************************)
(* src/bot.py: periodic_price_check and the passes it runs                 *)
(***************************************************************************)
\* asyncio.sleep(1800) between two passes, and the steps the clock takes
Interval == 1800
SleepStep == Interval \div 2

\* the stretches of refresh_prices_and_notify, in the order of its lines
Phases == <<"get_all_items", "group", "fetch_bounds", "gather", "reconcile", "log">>

\* what each stretch can raise: the database read (breaker open, driver
\* error), a row that is not a mapping, the bounds call (its new_only
\* argument, the breaker, the provider), nothing in gather (each task
\* catches Exception, lines 220-226), the arithmetic and the notification
ExcOf(phase) ==
    CASE phase = "get_all_items" -> {"sqlite3.OperationalError", "Exception"}
      [] phase = "group"         -> {"AttributeError"}
      [] phase = "fetch_bounds"  -> {"TypeError", "Exception"}
      [] phase = "gather"        -> {}
      [] phase = "reconcile"     -> {"TypeError", "telegram.error.NetworkError"}
      [] phase = "log"           -> {}

\* the early returns of lines 203-204 and 213-214
ReturnsEarly == {"get_all_items", "group"}

\* a handler that catches database errors only
except_database_only(exc) == exc = "sqlite3.OperationalError"

\* except Exception (line 314): every class above derives from Exception
except_Exception(exc) == TRUE

sched_idle == [pc |-> "not started", at |-> 0, passes |-> 0, last |-> "none",
               error |-> "none", waited |-> 0]

\* asyncio.create_task(periodic_price_check(application)) and the first
\* turn of while True (bot.py:1054, 318-319)
sched_start ==
    /\ sched.pc = "not started"
    /\ sched' = [sched EXCEPT !.pc = "pass", !.at = 1, !.passes = 1]

\* the pass goes on to its next stretch
pass_step ==
    /\ sched.pc = "pass"
    /\ sched.at < Len(Phases)
    /\ sched' = [sched EXCEPT !.at = sched.at + 1]

\* nothing tracked: return (lines 203-204, 213-214)
pass_returns_early ==
    /\ sched.pc = "pass"
    /\ Phases[sched.at] \in ReturnsEarly
    /\ sched' = [sched EXCEPT !.pc = "sleeping", !.last = "returned early",
                              !.error = "none", !.waited = 0]

\* the pass reached its last line (line 313)
pass_completes ==
    /\ sched.pc = "pass"
    /\ sched.at = Len(Phases)
    /\ sched' = [sched EXCEPT !.pc = "sleeping", !.last = "completed",
                              !.error = "none", !.waited = 0]

\* something raised inside the pass (lines 201, 314-315)
pass_raises(exc) ==
    /\ sched.pc = "pass"
    /\ exc \in ExcOf(Phases[sched.at])
    /\ IF except_Exception(exc)
         THEN \* logger.error("Refresh cycle error"); the function returns
              sched' = [sched EXCEPT !.pc = "sleeping", !.last = "failed",
                                     !.error = exc, !.waited = 0]
         ELSE \* the exception leaves periodic_price_check: the task ends
              sched' = [sched EXCEPT !.pc = "terminated", !.last = "failed",
                                     !.error = exc]

\* time passes inside await asyncio.sleep(1800) (line 321)
sleep_tick ==
    /\ sched.pc = "sleeping"
    /\ sched.waited < Interval
    /\ sched' = [sched EXCEPT !.waited = sched.waited + SleepStep]

\* the sleep is over: the next turn of while True (lines 318-319)
sleep_returns ==
    /\ sched.pc = "sleeping"
    /\ sched.waited = Interval
    /\ sched.passes < MaxPasses
    /\ sched' = [sched EXCEPT !.pc = "pass", !.at = 1, !.passes = sched.passes + 1]

SchedInit == sched = sched_idle


(***************************************************************************)
(* src/bot.py: the semaphore around the live-price fetches of a pass        *)
(***************************************************************************)
\* asyncio.Semaphore(10) (line 216)
SemaphoreSize == 10

\* tasks = [fetch_current_data(a, dom) for a in asins_dom] (line 235)
Tasks == 1..MaxTasks

sem_idle == [value |-> SemaphoreSize, waiters |-> <<>>,
             pc |-> [t \in Tasks |-> "not created"]]

\* a semaphore that never makes a task wait
never_locked(sm) == FALSE

\* Semaphore.locked(): no slot left, or somebody already queued
locked(sm) == sm.value = 0 \/ sm.waiters # <<>>

\* Semaphore._wake_up_next(): the slot goes to the first waiter not yet woken
wake_up_next(sm) ==
    LET waiting == {i \in 1..Len(sm.waiters) : sm.pc[sm.waiters[i]] = "waiting"}
    IN IF waiting = {}
         THEN sm
         ELSE LET first == sm.waiters[CHOOSE i \in waiting : \A j \in waiting : i <= j]
              IN [sm EXCEPT !.value = sm.value - 1, !.pc[first] = "woken"]

\* Semaphore.release(), on leaving the async with block
release(sm) == wake_up_next([sm EXCEPT !.value = sm.value + 1])

\* the block of lines 221-226 once the slot is held: it ends within the same
\* turn of the event loop when nothing in it suspends (the call of line 223
\* is not awaited), and stays in flight when the fetch suspends
enter_block(sm, t, suspends) ==
    IF suspends
      THEN [sm EXCEPT !.pc[t] = "holding"]
      ELSE release([sm EXCEPT !.pc[t] = "done"])

\* asyncio.gather(*tasks) (line 238)
gather ==
    /\ \A t \in Tasks : sem.pc[t] = "not created"
    /\ sem' = [sem EXCEPT !.pc = [t \in Tasks |-> "created"]]

\* the first turn of task t: async with sem (line 220); tasks start in the
\* order gather() created them
task_start(t, suspends) ==
    /\ sem.pc[t] = "created"
    /\ \A u \in Tasks : u < t => sem.pc[u] # "created"
    /\ IF ~locked(sem)
         THEN sem' = enter_block([sem EXCEPT !.value = sem.value - 1], t, suspends)
         ELSE sem' = [sem EXCEPT !.waiters = Append(sem.waiters, t),
                                 !.pc[t] = "waiting"]

\* a woken task runs again: the rest of Semaphore.acquire(), then the block
task_resume(t, suspends) ==
    /\ sem.pc[t] = "woken"
    /\ LET left == [sem EXCEPT !.waiters = SelectSeq(sem.waiters, LAMBDA u : u # t),
                               !.pc[t] = "resumed"]
           passed == IF left.value > 0 THEN wake_up_next(left) ELSE left
       IN sem' = enter_block(passed, t, suspends)

\* the fetch of task t returned or raised (lines 223-226); the block is left
task_finish(t) ==
    /\ sem.pc[t] = "holding"
    /\ sem' = release([sem EXCEPT !.pc[t] = "done"])

SemInit == sem = sem_idle

\* nothing of these components is running
conc_parked ==
    /\ html = html_idle
    /\ callers = callers_idle
    /\ sched = sched_idle
    /\ sem = sem_idle

aux_parked == cache_parked /\ retry_parked /\ ext_parked /\ conc_parked

(***************************************************************************)
(* Specifications                                                          *)
(***************************************************************************)
cb_parked ==
    /\ config = CHOOSE c \in circuit_breakers : c.name = "keepa_api"
    /\ failure_count = 0 /\ last_failure_time = None /\ state = "closed"
    /\ clock = 0 /\ cb_pc = "idle" /\ cb_result = "none"
    /\ func_invoked = FALSE /\ streak = 0

\* the circuit breaker alone
InitCB == CBInit /\ fx = fx_idle /\ BotInit /\ aux_parked
NextCB ==
    \/ call_enter /\ UNCHANGED <<fx, bot_vars, aux_vars>>
    \/ call_return /\ UNCHANGED <<fx, bot_vars, aux_vars>>
    \/ call_raise /\ UNCHANGED <<fx, bot_vars, aux_vars>>
    \/ Tick /\ UNCHANGED <<fx, bot_vars, aux_vars>>
SpecCB == InitCB /\ [][NextCB]_vars

\* one application of a pure function to arguments drawn from PurePrices
InitPure == PureInit /\ cb_parked /\ BotInit /\ aux_parked
NextPure ==
    \/ ApplyValidate /\ UNCHANGED <<cb_vars, bot_vars, aux_vars>>
    \/ ApplyDrop /\ UNCHANGED <<cb_vars, bot_vars, aux_vars>>
SpecPure == InitPure /\ [][NextPure]_vars

\* the add flow and the refresh pass over the items table
InitBot == BotInit /\ cb_parked /\ fx = fx_idle /\ aux_parked
NextBot ==
    \/ \E k \in Keys : handle_shared_link(k) /\ UNCHANGED <<cb_vars, fx, aux_vars>>
    \/ \E k \in Keys : handle_shared_link_none(k) /\ UNCHANGED <<cb_vars, fx, aux_vars>>
    \/ refresh_no_items /\ UNCHANGED <<cb_vars, fx, aux_vars>>
    \/ refresh_begin /\ UNCHANGED <<cb_vars, fx, aux_vars>>
    \/ refresh_aborted /\ UNCHANGED <<cb_vars, fx, aux_vars>>
    \/ \E asin \in Asins : process_asin(asin) /\ UNCHANGED <<cb_vars, fx, aux_vars>>
    \/ refresh_end /\ UNCHANGED <<cb_vars, fx, aux_vars>>
SpecBot == InitBot /\ [][NextBot]_vars

\* the bounds cache
InitCache == CacheInit /\ cb_parked /\ fx = fx_idle /\ BotInit /\ retry_parked /\ ext_parked /\ conc_parked
NextCache ==
    \/ \E p \in Prefixes, l \in AsinLists, d \in Domains :
          get_lifetime(p, l, d) /\ UNCHANGED <<cb_vars, fx, bot_vars, retry_vars, ext_vars, conc_vars>>
    \/ \E p \in Prefixes, l \in AsinLists, v \in CacheData, t \in Ttls :
          set_lifetime(p, l, v, t) /\ UNCHANGED <<cb_vars, fx, bot_vars, retry_vars, ext_vars, conc_vars>>
    \/ \E k \in CacheKeys : delete(k) /\ UNCHANGED <<cb_vars, fx, bot_vars, retry_vars, ext_vars, conc_vars>>
    \/ clear_expired /\ UNCHANGED <<cb_vars, fx, bot_vars, retry_vars, ext_vars, conc_vars>>
    \/ \E k \in CacheKeys, c \in CorruptKinds :
          corrupt_file(k, c) /\ UNCHANGED <<cb_vars, fx, bot_vars, retry_vars, ext_vars, conc_vars>>
    \/ cache_tick /\ UNCHANGED <<cb_vars, fx, bot_vars, retry_vars, ext_vars, conc_vars>>
SpecCache == InitCache /\ [][NextCache]_vars

\* the retry wrapper around any function
InitRetry == retry_parked /\ cache_parked /\ cb_parked /\ fx = fx_idle /\ BotInit /\ ext_parked /\ conc_parked
NextRetry ==
    \/ retry_call /\ UNCHANGED <<cb_vars, fx, bot_vars, cache_vars, ext_vars, conc_vars>>
    \/ func_returns /\ UNCHANGED <<cb_vars, fx, bot_vars, cache_vars, ext_vars, conc_vars>>
    \/ func_raises /\ UNCHANGED <<cb_vars, fx, bot_vars, cache_vars, ext_vars, conc_vars>>
SpecRetry == InitRetry /\ [][NextRetry]_vars

\* the history client behind its retry wrapper and its breaker
InitFetch == FetchInit /\ cache_parked /\ fx = fx_idle /\ BotInit /\ ext_parked /\ conc_parked
NextFetch ==
    \/ \E fn \in FetchFns, has_key \in BOOLEAN, l \in FetchLists :
          fetch_call(fn, has_key, l) /\ UNCHANGED <<fx, bot_vars, cache_vars, ext_vars, conc_vars>>
    \/ fetch_enter /\ UNCHANGED <<fx, bot_vars, cache_vars, ext_vars, conc_vars>>
    \/ fetch_provider_returns /\ UNCHANGED <<fx, bot_vars, cache_vars, ext_vars, conc_vars>>
    \/ \E exc \in {"Exception", "ImportError"}, p \in {"returns", "ImportError", "raises"} :
          fetch_provider_raises(exc, p) /\ UNCHANGED <<fx, bot_vars, cache_vars, ext_vars, conc_vars>>
    \/ fetch_tick /\ UNCHANGED <<fx, bot_vars, cache_vars, ext_vars, conc_vars>>
SpecFetch == InitFetch /\ [][NextFetch]_vars

\* the history extractor on a batch of raw products
InitExt ==
    ExtInit /\ cache_parked /\ retry_parked /\ cb_parked /\ fx = fx_idle /\ BotInit /\ conc_parked
NextExt ==
    \/ ApplyParseWithCurrent /\ UNCHANGED <<cb_vars, fx, bot_vars, cache_vars, retry_vars, conc_vars>>
    \/ ApplyParse /\ UNCHANGED <<cb_vars, fx, bot_vars, cache_vars, retry_vars, conc_vars>>
SpecExt == InitExt /\ [][NextExt]_vars

\* fetch_html and its breaker
InitHtml ==
    /\ HtmlInit /\ callers = callers_idle /\ sched = sched_idle /\ sem = sem_idle
    /\ fx = fx_idle /\ BotInit /\ cache_parked /\ retry_parked /\ ext_parked
html_rest == <<fx, bot_vars, cache_vars, retry_vars, ext_vars, callers, sched, sem>>
NextHtml ==
    \/ fetch_html_enter /\ UNCHANGED html_rest
    \/ \E status_code \in StatusCodes :
          fetch_html_response(status_code) /\ UNCHANGED html_rest
    \/ fetch_html_raises /\ UNCHANGED html_rest
    \/ Tick /\ UNCHANGED <<html, html_rest>>
SpecHtml == InitHtml /\ [][NextHtml]_vars

\* one breaker called from several threads
InitConc ==
    /\ ConcInit /\ html = html_idle /\ sched = sched_idle /\ sem = sem_idle
    /\ fx = fx_idle /\ BotInit /\ cache_parked /\ retry_parked /\ ext_parked
conc_rest == <<fx, bot_vars, cache_vars, retry_vars, ext_vars, html, sched, sem>>
NextConc ==
    \/ \E t \in Callers : conc_call_enter(t) /\ UNCHANGED conc_rest
    \/ \E t \in Callers : conc_call_return(t) /\ UNCHANGED conc_rest
    \/ \E t \in Callers : conc_call_raise(t) /\ UNCHANGED conc_rest
    \/ Tick /\ UNCHANGED <<callers, conc_rest>>
SpecConc == InitConc /\ [][NextConc]_vars

\* the scheduler loop
InitSched ==
    /\ SchedInit /\ html = html_idle /\ callers = callers_idle /\ sem = sem_idle
    /\ cb_parked /\ fx = fx_idle /\ BotInit /\ cache_parked /\ retry_parked /\ ext_parked
sched_rest ==
    <<cb_vars, fx, bot_vars, cache_vars, retry_vars, ext_vars, html, callers, sem>>
NextSched ==
    \/ sched_start /\ UNCHANGED sched_rest
    \/ pass_step /\ UNCHANGED sched_rest
    \/ pass_returns_early /\ UNCHANGED sched_rest
    \/ pass_completes /\ UNCHANGED sched_rest
    \/ \E exc \in UNION {ExcOf(Phases[i]) : i \in 1..Len(Phases)} :
          pass_raises(exc) /\ UNCHANGED sched_rest
    \/ sleep_tick /\ UNCHANGED sched_rest
    \/ sleep_returns /\ UNCHANGED sched_rest
SpecSched == InitSched /\ [][NextSched]_vars

\* the fetch tasks of one gather; the event loop runs every task that is
\* ready, and a fetch in flight comes to an end
InitSem ==
    /\ SemInit /\ html = html_idle /\ callers = callers_idle /\ sched = sched_idle
    /\ cb_parked /\ fx = fx_idle /\ BotInit /\ cache_parked /\ retry_parked /\ ext_parked
sem_rest ==
    <<cb_vars, fx, bot_vars, cache_vars, retry_vars, ext_vars, html, callers, sched>>
NextSem ==
    \/ gather /\ UNCHANGED sem_rest
    \/ \E t \in Tasks, suspends \in BOOLEAN :
          task_start(t, suspends) /\ UNCHANGED sem_rest
    \/ \E t \in Tasks, suspends \in BOOLEAN :
          task_resume(t, suspends) /\ UNCHANGED sem_rest
    \/ \E t \in Tasks : task_finish(t) /\ UNCHANGED sem_rest
SpecSem == InitSem /\ [][NextSem]_vars /\ WF_vars(NextSem)

(***************************************************************************)
(* Properties of validate_price_consistency and of the drop test           *)
(***************************************************************************)
validated == fx.fn = "validate_price_consistency" /\ fx.done
v_current == fx.args[1]
v_min == fx.args[2]
v_max == fx.args[3]

\* C2: for every input, bounds given in the wrong order (min > max) included,
\* the pair (min', max') that validate_price_consistency returns satisfies
\* min' <= current <= max'.
C2_ResultBracketsCurrent ==
    validated => (fx.out[1] <= v_current /\ v_current <= fx.out[2])

C2_Witness_InvertedBounds ==
    /\ validated
    /\ v_min > v_max
    /\ fx.out[1] <= v_current /\ v_current <= fx.out[2]

\* C3 as the specification words it: a current below min replaces min and
\* leaves max as it was, a current above max replaces max and leaves min as
\* it was, a current inside the bounds leaves both.
C3_Original_OnlyViolatedBoundChanges ==
    validated =>
        /\ v_current < v_min => (fx.out[1] = v_current /\ fx.out[2] = v_max)
        /\ v_current > v_max => (fx.out[2] = v_current /\ fx.out[1] = v_min)
        /\ (v_min <= v_current /\ v_current <= v_max) => fx.out = <<v_min, v_max>>

\* C3, amended: each bound is corrected on its own test.  min' is current
\* when current < min and min otherwise; max' is current when current > max
\* and max otherwise.  So with current < min the max is unchanged only if
\* current <= max, and with current > max the min is unchanged only if
\* current >= min; for max < current < min both bounds become current.  The
\* examples (50, 100, 40) -> min 40 and (50, 100, 150) -> max 150 hold.
C3_EachBoundOnItsOwnTest ==
    /\ validated =>
        /\ fx.out[1] = (IF v_current < v_min THEN v_current ELSE v_min)
        /\ fx.out[2] = (IF v_current > v_max THEN v_current ELSE v_max)
        /\ (v_current < v_min /\ v_current <= v_max) => fx.out = <<v_current, v_max>>
        /\ (v_current > v_max /\ v_current >= v_min) => fx.out = <<v_min, v_current>>
        /\ (v_max < v_current /\ v_current < v_min) => fx.out = <<v_current, v_current>>
    /\ validate_price_consistency(4000, 5000, 10000) = <<4000, 10000>>
    /\ validate_price_consistency(15000, 5000, 10000) = <<5000, 15000>>

C3_Witness_BothBoundsMoved ==
    /\ validated
    /\ v_max < v_current /\ v_current < v_min
    /\ fx.out = <<v_current, v_current>>

dropped == fx.fn = "significant_drop" /\ fx.done

\* C8 as the specification words it: a fall from 100 to 95 is not notified,
\* a fall from 20 to 18 is notified, a fall from 10 to 9.90 is not notified.
C8_Original_ThresholdExamples ==
    dropped =>
        /\ fx.args = <<10000, 9500>> => fx.out[1] = 0
        /\ fx.args = <<2000, 1800>> => fx.out[1] = 1
        /\ fx.args = <<1000, 990>> => fx.out[1] = 0

\* C8, amended: a fall from 100 to 95 is notified (the drop of 5 is above the
\* absolute threshold 1.0, although 5% is not above 5%), a fall from 20 to 18
\* is notified, a fall from 10 to 9.90 is not notified; both thresholds are
\* exclusive, so a fall from 20 to 19 (drop 1.0, 5%) is not notified.
C8_ThresholdExamples ==
    dropped =>
        /\ fx.args = <<10000, 9500>> => fx.out[1] = 1
        /\ fx.args = <<2000, 1800>> => fx.out[1] = 1
        /\ fx.args = <<1000, 990>> => fx.out[1] = 0
        /\ fx.args = <<2000, 1900>> => fx.out[1] = 0

C8_Witness_FiveOffHundred ==
    dropped /\ fx.args = <<10000, 9500>> /\ fx.out[1] = 1

(***************************************************************************)
(* Properties of the circuit breaker                                       *)
(***************************************************************************)
\* a step in which a call() that invoked the wrapped function ends
call_ends == cb_pc = "in_func" /\ cb_pc' = "idle"
elapsed == clock - last_failure_time

\* C4: a CLOSED breaker goes OPEN exactly when a call fails and that failure
\* is the failure_threshold-th consecutive one; a call that succeeds sets
\* the failure count to 0.
C4_OpensAtThreshold ==
    [][ /\ (call_ends /\ state = "closed") =>
             ((state' = "open") <=>
                (cb_result' = "raised" /\ streak' = config.failure_threshold))
        /\ (call_ends /\ cb_result' = "returned") => failure_count' = 0
      ]_vars

C4_Witness_OpenedAtThreshold ==
    /\ state = "open"
    /\ cb_result = "raised"
    /\ streak = config.failure_threshold
    /\ failure_count = config.failure_threshold

\* C5: while the breaker is OPEN and less than recovery_timeout has elapsed
\* since the last failure, call() raises the circuit-open error, does not
\* invoke the wrapped function, and leaves state, failure_count and
\* last_failure_time as they were.
C5_OpenRejects ==
    [][ (cb_pc = "idle" /\ clock' = clock /\ state = "open"
            /\ elapsed < config.recovery_timeout)
        => /\ cb_result' = "circuit_open"
           /\ ~func_invoked'
           /\ cb_pc' = "idle"
           /\ UNCHANGED <<state, failure_count, last_failure_time>>
      ]_vars

C5_Witness_Rejected ==
    /\ state = "open"
    /\ cb_result = "circuit_open"
    /\ ~func_invoked
    /\ elapsed > 0 /\ elapsed < config.recovery_timeout

\* C6: once recovery_timeout has elapsed, the next call() on an OPEN breaker
\* moves it to HALF_OPEN and invokes the wrapped function; if that call
\* succeeds the breaker is CLOSED with failure count 0, if it fails the
\* breaker is OPEN again and the recovery timer starts at that failure.
C6_HalfOpenTrial ==
    [][ /\ (cb_pc = "idle" /\ clock' = clock /\ state = "open"
               /\ elapsed >= config.recovery_timeout)
             => (state' = "half_open" /\ func_invoked' /\ cb_pc' = "in_func")
        /\ (call_ends /\ state = "half_open" /\ cb_result' = "returned")
             => (state' = "closed" /\ failure_count' = 0)
        /\ (call_ends /\ state = "half_open" /\ cb_result' = "raised")
             => (state' = "open" /\ last_failure_time' = clock)
        /\ (call_ends /\ state = "half_open")
             => cb_result' \in {"returned", "raised"}
      ]_vars

C6_Witness_TrialFailed ==
    /\ state = "open"
    /\ cb_result = "raised"
    /\ failure_count = config.failure_threshold + 1
    /\ last_failure_time = clock
    /\ clock >= config.recovery_timeout

C12_PassHandlesEveryProduct ==
    [][ (pass_pc = "running" /\ pass_pc' = "idle") => pending = {} ]_vars

same_asins(l1, l2) ==
    /\ Len(l1) = Len(l2)
    /\ {l1[i] : i \in 1..Len(l1)} = {l2[i] : i \in 1..Len(l2)}

\* the key the last get() looked under
op_key == cache_key(cache_op.prefix, cache_op.asins)

\* C14: the key of a batched lookup does not depend on the order of the
\* ASINs: batches listing the same ASINs have one key, and a get finds the
\* unexpired entry that a set stored for any reordering of its batch.
C14_KeyIgnoresOrder ==
    /\ \A p \in Prefixes, l1 \in AsinLists, l2 \in AsinLists :
          same_asins(l1, l2) => cache_key(p, l1) = cache_key(p, l2)
    /\ cache_op.op = "get" =>
          \A l \in AsinLists :
              LET k == cache_key(cache_op.prefix, l)
              IN  ( /\ same_asins(l, cache_op.asins)
                    /\ k \in DOMAIN cache_written
                    /\ cache_written[k].asins = l
                    /\ k \in DOMAIN cache_files
                    /\ cache_files[k].kind = "entry"
                    /\ ~is_expired(cache_files[k]) )
                  => /\ cache_op.out = json_roundtrip(cache_written[k].value)
                     /\ cache_op.raised = "none"

C14_Witness_StoredInOtherOrder ==
    /\ cache_op.op = "get"
    /\ cache_op.asins = <<"A1", "B1">>
    /\ op_key \in DOMAIN cache_written
    /\ cache_written[op_key].asins = <<"B1", "A1">>
    /\ cache_op.out # NoData
    /\ cache_op.out = json_roundtrip(cache_written[op_key].value)

\* C15: after set(key, value, ttl), and until the key is set again or
\* deleted, get returns the value while now <= timestamp + ttl, for the ttl
\* that was passed, and returns None and removes the entry once
\* now > timestamp + ttl; get of a key never set, or deleted, returns None.
C15_FreshUntilTtlPassed ==
    cache_op.op = "get" =>
        IF op_key \in DOMAIN cache_written
          THEN LET w == cache_written[op_key]
                   ttl == IF w.ttl = None THEN default_ttl ELSE w.ttl
               IN  IF cache_now <= w.at + ttl
                     THEN /\ cache_op.out = json_roundtrip(w.value)
                          /\ cache_op.raised = "none"
                     ELSE /\ cache_op.out = NoData
                          /\ ~cache_op.left
          ELSE cache_op.found = "none" =>
                  (cache_op.out = NoData /\ cache_op.raised = "none")

\* C16: get of an entry that cannot be read (not JSON, JSON without or with
\* further fields, fields of a wrong type) never raises: the entry is
\* evicted and None returned.
C16_CorruptEntryEvicted ==
    (cache_op.op = "get" /\ cache_op.found \in CorruptKinds) =>
        /\ cache_op.raised = "none"
        /\ cache_op.out = NoData
        /\ ~cache_op.left

\* C17: the key holds the domain: a value cached for a batch on one domain
\* is not returned to a lookup of the same batch on another domain.
C17_KeyHoldsDomain ==
    (cache_op.op = "get" /\ cache_op.out # NoData) =>
        cache_op.out.domain = cache_op.domain

(***************************************************************************)
(* Properties of retry_with_backoff                                        *)
(***************************************************************************)
\* C18: a function wrapped with max_retries = N is invoked at most N + 1
\* times; its first success is returned at once; the wait before retry k
\* (k = 0..N-1) is min(base_delay * backoff_factor^k, max_delay); after
\* N + 1 retryable failures the last exception is raised; an exception that
\* is not retryable leaves the wrapper at the invocation that raised it,
\* with no retry.
C18_RetryPolicy ==
    /\ rt.calls <= rt.max_retries + 1
    /\ Len(rt.sleeps) <= rt.max_retries
    /\ \A k \in 1..Len(rt.sleeps) :
          LET d == rt.base_delay * pow(rt.backoff_factor, k - 1)
          IN  rt.sleeps[k] = IF d < rt.max_delay THEN d ELSE rt.max_delay
    /\ rt.pc = "returned" => rt.calls = Len(rt.sleeps) + 1
    /\ (rt.pc = "raised" /\ rt.raised.kind = "retryable") =>
          /\ rt.calls = rt.max_retries + 1
          /\ Len(rt.sleeps) = rt.max_retries
          /\ rt.raised.n = rt.max_retries + 1
    /\ (rt.pc = "raised" /\ rt.raised.kind = "other") =>
          /\ rt.raised.n = rt.calls
          /\ Len(rt.sleeps) = rt.calls - 1
    /\ rt.pc \in {"calling", "idle"} => rt.calls = Len(rt.sleeps)

C18_Witness_ExhaustedWithCappedDelay ==
    /\ rt.pc = "raised"
    /\ rt.raised.kind = "retryable"
    /\ rt.max_retries = 3
    /\ rt.calls = 4
    /\ rt.sleeps = <<2, 3, 3>>

(***************************************************************************)
(* Properties of the history client                                        *)
(***************************************************************************)
\* C19: when a query of the history provider fails transiently, the wrapped
\* function is retried by the retry policy (up to 3 further attempts) and
\* only when these are used up does the call end, with no data and without
\* raising.
C19_RetriedBeforeNoData ==
    (fetch.pc = "done" /\ fetch.failed) =>
        /\ fetch.result.kind = "no_data"
        /\ rt.calls = rt.max_retries + 1
        /\ Len(rt.sleeps) = rt.max_retries

\* C20: a call that finds the keepa_api breaker OPEN with its recovery
\* timeout not elapsed ends with the None bounds for every ASIN asked for,
\* without a query of the provider and without raising; so for both
\* functions.
C20_OpenBreakerGivesNoData ==
    fetch.open_before =>
        /\ fetch.pc = "done"
        /\ fetch.result = no_data(fetch.fn, fetch.asin_list)
        /\ fetch.result.asins = {fetch.asin_list[i] : i \in 1..Len(fetch.asin_list)}
        /\ fetch.queries = 0
        /\ rt.pc = "returned"

C20_Witness_RejectedBatch ==
    /\ fetch.open_before
    /\ fetch.pc = "done"
    /\ fetch.fn = "fetch_lifetime_min_max"
    /\ fetch.asin_list = <<"A1", "B1">>
    /\ fetch.result = [kind |-> "no_data", asins |-> {"A1", "B1"}, width |-> 2]
    /\ state = "open"

the_product == xt.products[1]
\* the with-current and the bounds-only result for ASIN A1
cur_A1 == xt.cur.out["A1"]
bo_A1 == xt.bo.out["A1"]
cur_done == xt.cur.raised = "none" /\ "A1" \in DOMAIN xt.cur.out
bo_done == xt.bo.raised = "none" /\ "A1" \in DOMAIN xt.bo.out

\* a series of at least two samples whose timestamps (even indices) do not
\* decrease and whose prices (odd indices) are in range
well_formed(series) ==
    LET ts == subset_vals(series, 0)
        ps == subset_vals(series, 1)
    IN  /\ Len(series) >= 4
        /\ \A i \in 2..Len(ts) : ts[i] >= ts[i - 1]
        /\ \A i \in 1..Len(ps) : in_range(ps[i])

\* stats whose min, max and current are the same valid number
degenerate(stats) ==
    /\ stats.current.t = "num" /\ in_range(stats.current.a)
    /\ stats.min = stats.current
    /\ stats.max = stats.current

\* C21: with degenerate stats (min = max = current) and a history series of
\* at least two samples, timestamps at the even indices not decreasing and
\* prices at the odd indices in range, the extractor returns the lowest
\* history price as min where it is below the stat, and the highest as max
\* where it is above, whatever the magnitude of the timestamps.
C21_HistoryImprovesDegenerateStats ==
    (cur_done /\ Len(xt.products) = 1 /\ degenerate(the_product.stats)
        /\ well_formed(the_product.series)) =>
        LET ps == subset_vals(the_product.series, 1)
            c == the_product.stats.current.a
        IN  /\ cur_A1[1] = Min(seq_min(ps), c)
            /\ cur_A1[2] = Max(seq_max(ps), c)

\* C22: a stat list whose primary entry is a pair with one element above
\* 2,000,000 and the other in (0, 2,000,000) gives the in-range element,
\* in whichever position; a pair of two in-range elements gives the first.
C22_PairPicksPrice ==
    \A i \in 1..Len(xt.products) :
        LET p == xt.products[i]
            val == p.stats.current
        IN  (cur_done /\ p.asin = "A1" /\ p.stats_kind = "mapping"
                /\ val.t = "list" /\ Len(val.l) >= 1 /\ val.l[1].t = "pair") =>
                LET a == val.l[1].a
                    b == val.l[1].b
                IN  /\ (a > 2000000 /\ in_range(b)) => cur_A1[3] = b
                    /\ (b > 2000000 /\ in_range(a)) => cur_A1[3] = a
                    /\ (in_range(a) /\ in_range(b)) => cur_A1[3] = a

C22_Witness_LargeThenSmall ==
    /\ cur_done
    /\ xt.products[1].asin = "A1"
    /\ xt.products[1].stats.current = ListStat(<<PairEntry(2500000, 1999)>>)
    /\ cur_A1[3] = 1999

\* the bounds the stats give before the history is looked at: the stat, or
\* current where the stat is missing
seeded(stats, key) ==
    LET raw == _pick_amazon_stat(stats[key])
        c == _pick_amazon_stat(stats.current)
    IN  IF ~valid(raw) /\ valid(c) THEN c ELSE raw

\* the history only improves: returned min <= seeded min, returned
\* max >= seeded max
only_improves(result, stats) ==
    /\ valid(seeded(stats, "min")) =>
          (valid(result[1]) /\ result[1] <= seeded(stats, "min"))
    /\ valid(seeded(stats, "max")) =>
          (valid(result[2]) /\ result[2] >= seeded(stats, "max"))

\* a valid stat bound that differs from a valid current is returned as it is
distinct_stat_kept(result, stats) ==
    LET c == _pick_amazon_stat(stats.current)
        lo == _pick_amazon_stat(stats.min)
        hi == _pick_amazon_stat(stats.max)
    IN  /\ (valid(lo) /\ valid(c) /\ lo # c) => result[1] = lo
        /\ (valid(hi) /\ valid(c) /\ hi # c) => result[2] = hi

C28_MalformedNeverRaises ==
    /\ xt.cur # NotRun =>
          /\ xt.cur.raised = "none"
          /\ \A i \in 1..Len(xt.products) :
                xt.products[i].asin # "" => xt.products[i].asin \in DOMAIN xt.cur.out
          /\ \A i \in 1..Len(xt.products) :
                xt.products[i] = GoodProduct => xt.cur.out["B1"] = <<900, 1100, 1000>>
    /\ xt.bo # NotRun =>
          /\ xt.bo.raised = "none"
          /\ \A i \in 1..Len(xt.products) :
                xt.products[i].asin # "" => xt.products[i].asin \in DOMAIN xt.bo.out
          /\ \A i \in 1..Len(xt.products) :
                xt.products[i] = GoodProduct => xt.bo.out["B1"] = <<900, 1100>>

\* C29: on degenerate stats (min = max, equal to current where there is
\* one) with a history that gives hmin < min and hmax > max, the two
\* extractors agree: both return (hmin, hmax).
C29_ExtractorsAgreeOnDegenerate ==
    (cur_done /\ bo_done /\ Len(xt.products) = 1) =>
        LET stats == the_product.stats
            c == _pick_amazon_stat(stats.current)
            lo == seeded(stats, "min")
            hi == seeded(stats, "max")
            h == _minmax_from_history(the_product.series)
        IN  (valid(lo) /\ lo = hi /\ (valid(c) => c = lo)
                /\ h[1] # None /\ h[1] < lo /\ h[2] > hi) =>
                /\ <<cur_A1[1], cur_A1[2]>> = h
                /\ bo_A1 = h


(***************************************************************************)
(* Properties of fetch_html                                                *)
(***************************************************************************)
\* C25: a fetch_html call made while the amazon_scraping breaker is OPEN, or
\* after failure_threshold consecutive failed fetches and before the recovery
\* timeout, returns None without sending the HTTP request.
C25_OpenBreakerSendsNothing ==
    html.pc # "idle" =>
        /\ html.open_at_call => (~html.sent /\ html.result = "None")
        /\ (html.streak_at_call >= config.failure_threshold /\ html.before_timeout)
               => ~html.sent


(***************************************************************************)
(* Properties of a breaker called concurrently                             *)
(***************************************************************************)
in_flight == {t \in Callers : callers[t].pc = "in_func"}
probes == {t \in in_flight : callers[t].arrived_in \in {"open", "half_open"}}

\* C26: in HALF_OPEN exactly one invocation of the wrapped function is in
\* flight as the probe, and no caller that arrived while the breaker was
\* HALF_OPEN (before the probe completed) is passed through to the function.
C26_SingleProbe ==
    /\ \A t \in in_flight : callers[t].arrived_in # "half_open"
    /\ state = "half_open" => Cardinality(probes) = 1


(***************************************************************************)
(* Properties of the scheduler loop                                        *)
(***************************************************************************)
\* C27: an exception raised inside a refresh pass never ends the scheduler
\* loop: a pass, completed or failed, is followed by the wait of the interval,
\* and the wait, once the whole interval has passed, by the next pass.
C27_LoopOutlivesFailedPass ==
    [][ /\ sched'.pc # "terminated"
        /\ (sched.pc = "pass" /\ sched'.pc # "pass")
               => (sched'.pc = "sleeping" /\ sched'.waited = 0)
        /\ (sched.pc = "sleeping" /\ sched'.pc # "sleeping")
               => /\ sched.waited = Interval
                  /\ sched'.pc = "pass"
                  /\ sched'.at = 1
                  /\ sched'.passes = sched.passes + 1
        /\ (sched.pc = "sleeping" /\ sched.passes < MaxPasses)
               => ENABLED (sleep_tick \/ sleep_returns) ]_vars

\* a pass is under way after one that failed on an exception
C27_Witness_PassAfterFailedPass ==
    /\ sched.pc = "pass"
    /\ sched.passes >= 2
    /\ sched.last = "failed"
    /\ sched.error = "TypeError"


(***************************************************************************)
(* Properties of the semaphore of a pass                                   *)
(***************************************************************************)
holding == {t \in Tasks : sem.pc[t] = "holding"}
queued == {t \in Tasks : sem.pc[t] \in {"waiting", "woken"}}

woken == {t \in Tasks : sem.pc[t] = "woken"}

====
